---- MODULE Spec2Model ----
(***************************************************************************)
(* A model of the HAL-PROLOG engine (src/halprolog/runtime.py) and of the  *)
(* clause database with its overlay (src/zamiaprolog/logicdb.py).          *)
(*                                                                         *)
(* Three specifications share the module:                                  *)
(*   Spec       PrologRuntime.search, one action per branch of its loop    *)
(*   SpecDB     LogicDB / LogicDBOverlay operations                        *)
(*   SpecUnify  PrologRuntime._unify and prolog_eval as pure functions     *)
(***************************************************************************)
EXTENDS Integers, Sequences, FiniteSets, TLC

VARIABLES
    \* ---- PrologRuntime.search (runtime.py 336-453)
    query,       \* the clause handed to search (its body is the goal)
    heap,        \* the PrologGoal objects allocated so far, by address
    queue,       \* the list `queue` of goal addresses, index 1 = python index 0
    solutions,   \* the list `solutions`
    status,      \* "running" | "returned" | "error"
    last,        \* which branch of the loop body ran last, and on which goal
    \* ---- LogicDB / LogicDBOverlay (logicdb.py)
    rows,        \* the ORMClause rows of the session, in insertion order
    d_assertz,   \* LogicDBOverlay.d_assertz of the overlay
    d_retracted, \* LogicDBOverlay.d_retracted of the overlay
    log,         \* history: the clauses stored and asserted so far, in call order
    dbop,        \* the last database operation, its arguments and its result
    odicts,      \* the dict objects of the overlays made by clone(), by address
    overlays,    \* the LogicDBOverlay objects: the addresses of their two dicts
    \* ---- _unify and prolog_eval as functions
    ucall,       \* the arguments and results of the unify calls made
    ecall        \* the arguments and results of the prolog_eval calls made

searchVars == <<query, heap, queue, solutions, status, last>>
cloneVars  == <<odicts, overlays>>
dbVars     == <<rows, d_assertz, d_retracted, log, dbop, odicts, overlays>>
fnVars     == <<ucall, ecall>>
vars       == <<query, heap, queue, solutions, status, last,
                rows, d_assertz, d_retracted, log, dbop, odicts, overlays,
                ucall, ecall>>

(***************************************************************************)
(* Terms (logic.py is not part of the sources at hand; the term classes    *)
(* are modelled from the data model: tagged records, structural equality). *)
(* Every term is a record over the same four fields, so that any two       *)
(* terms, and None, can be compared.                                       *)
(***************************************************************************)
Variable(n)         == [tag |-> "var",  name |-> n,  f |-> 0, args |-> <<>>]
NumberLiteral(k)    == [tag |-> "num",  name |-> "", f |-> k, args |-> <<>>]
StringLiteral(s)    == [tag |-> "str",  name |-> s,  f |-> 0, args |-> <<>>]
Predicate(n, a)     == [tag |-> "pred", name |-> n,  f |-> 0, args |-> a]
None                == [tag |-> "none", name |-> "", f |-> 0, args |-> <<>>]

IsVariable(t)  == t.tag = "var"
IsNumber(t)    == t.tag = "num"
IsLiteral(t)   == t.tag \in {"num", "str"}
IsPredicate(t) == t.tag = "pred"

\* python truth value of a term-or-None: the term classes define neither
\* __nonzero__ nor __len__, so only None is false
Truthy(t) == t # None

\* Term.__eq__ : structural equality
TermEq(a, b) == a = b

(***************************************************************************)
(* Environments: python dicts from variable name to term (or None).        *)
(***************************************************************************)
EmptyEnv == [v \in {} |-> None]

\* env.get(name)
EnvGet(env, n) == IF n \in DOMAIN env THEN env[n] ELSE None

\* env[name] = t
EnvSet(env, n, t) == [v \in (DOMAIN env) \cup {n} |-> IF v = n THEN t ELSE env[v]]

\* destEnv.update(dde)
EnvUpdate(env, dde) ==
    [v \in (DOMAIN env) \cup (DOMAIN dde) |-> IF v \in DOMAIN dde THEN dde[v] ELSE env[v]]

(***************************************************************************)
(* prolog_eval (runtime.py 156-211).  Numbers are integers here; of the    *)
(* binary operator table the total ones (add, sub, mul) are modelled; no   *)
(* term of the model is named like a registered built-in function.         *)
(***************************************************************************)
unary_operators  == {"+", "-"}
binary_operators == {"+", "-", "*"}

ApplyUnary(op, a) == IF op = "+" THEN NumberLiteral(a) ELSE NumberLiteral(0 - a)

ApplyBinary(op, a, b) ==
    IF op = "+" THEN NumberLiteral(a + b)
    ELSE IF op = "-" THEN NumberLiteral(a - b)
    ELSE NumberLiteral(a * b)

RECURSIVE prolog_eval(_, _)
RECURSIVE EvalArgs(_, _, _)

\* the loop of lines 205-210: gives up as soon as one argument evaluates to None
EvalArgs(args, env, i) ==
    IF i > Len(args) THEN [ok |-> TRUE, args |-> <<>>]
    ELSE LET a == prolog_eval(args[i], env) IN
         IF ~Truthy(a) THEN [ok |-> FALSE, args |-> <<>>]
         ELSE LET rest == EvalArgs(args, env, i + 1) IN
              IF ~rest.ok THEN rest ELSE [ok |-> TRUE, args |-> <<a>> \o rest.args]

\* prolog_eval with line 203 returning the binding itself, not its evaluation
prolog_evalNoChase(term, env) ==
    IF IsPredicate(term) /\ Len(term.args) = 1 /\ term.name \in unary_operators
    THEN LET a == prolog_eval(term.args[1], env) IN
         IF ~IsNumber(a) THEN None ELSE ApplyUnary(term.name, a.f)
    ELSE IF IsPredicate(term) /\ term.name \in binary_operators
    THEN IF Len(term.args) # 2 THEN None
         ELSE LET a == prolog_eval(term.args[1], env) IN
              IF ~IsNumber(a) THEN None
              ELSE LET b == prolog_eval(term.args[2], env) IN
                   IF ~IsNumber(b) THEN None
                   ELSE ApplyBinary(term.name, a.f, b.f)
    ELSE IF IsLiteral(term) THEN term
    ELSE IF IsVariable(term)
    THEN LET ans == EnvGet(env, term.name) IN
         IF ~Truthy(ans) THEN None ELSE ans
    ELSE LET r == EvalArgs(term.args, env, 1) IN
         IF ~r.ok THEN None ELSE Predicate(term.name, r.args)

prolog_eval(term, env) ==
    IF IsPredicate(term) /\ Len(term.args) = 1 /\ term.name \in unary_operators
    THEN LET a == prolog_eval(term.args[1], env) IN
         IF ~IsNumber(a) THEN None ELSE ApplyUnary(term.name, a.f)
    ELSE IF IsPredicate(term) /\ term.name \in binary_operators
    THEN IF Len(term.args) # 2 THEN None
         ELSE LET a == prolog_eval(term.args[1], env) IN
              IF ~IsNumber(a) THEN None
              ELSE LET b == prolog_eval(term.args[2], env) IN
                   IF ~IsNumber(b) THEN None
                   ELSE ApplyBinary(term.name, a.f, b.f)
    ELSE IF IsLiteral(term) THEN term
    ELSE IF IsVariable(term)
    THEN LET ans == EnvGet(env, term.name) IN
         IF ~Truthy(ans) THEN None ELSE prolog_eval(ans, env)
    ELSE LET r == EvalArgs(term.args, env, 1) IN
         IF ~r.ok THEN None ELSE Predicate(term.name, r.args)

(***************************************************************************)
(* _unify (runtime.py 274-313).  The python function returns a boolean and *)
(* updates destEnv in place; here it returns both: [ok, env], env being    *)
(* destEnv as the call leaves it.                                          *)
(***************************************************************************)
RECURSIVE _unify(_, _, _, _)
RECURSIVE UnifyArgs(_, _, _, _, _)

\* the loop of lines 309-311 over the scratch copy dde
UnifyArgs(srcArgs, srcEnv, destArgs, dde, i) ==
    IF i > Len(srcArgs) THEN [ok |-> TRUE, env |-> dde]
    ELSE LET r == _unify(srcArgs[i], srcEnv, destArgs[i], dde) IN
         IF ~r.ok THEN [ok |-> FALSE, env |-> r.env]
         ELSE UnifyArgs(srcArgs, srcEnv, destArgs, r.env, i + 1)

\* lines 295-301: a literal on the src side is compared by value, a literal
\* on the dest side alone never unifies
UnifyLiteral(src, srcEnv, dest, destEnv) ==
    IF IsLiteral(src)
    THEN LET srcVal  == prolog_eval(src, srcEnv)
             destVal == prolog_eval(dest, destEnv)
         IN  [ok |-> TermEq(srcVal, destVal), env |-> destEnv]
    ELSE [ok |-> FALSE, env |-> destEnv]

\* lines 287-293: dest is a variable
UnifyDestVariable(src, srcEnv, dest, destEnv) ==
    LET destVal == prolog_eval(dest, destEnv) IN
    IF Truthy(destVal)
    THEN _unify(src, srcEnv, destVal, destEnv)
    ELSE [ok |-> TRUE, env |-> EnvSet(destEnv, dest.name, prolog_eval(src, srcEnv))]

\* _unify without the scratch copy of line 308: the arguments are unified on
\* destEnv itself
_unifyNoCopy(src, srcEnv, dest, destEnv) ==
    IF IsVariable(src)
    THEN LET srcVal == prolog_eval(src, srcEnv) IN
         IF ~Truthy(srcVal) THEN [ok |-> TRUE, env |-> destEnv]
         ELSE _unify(srcVal, srcEnv, dest, destEnv)
    ELSE IF IsVariable(dest)
    THEN UnifyDestVariable(src, srcEnv, dest, destEnv)
    ELSE IF IsLiteral(src) \/ IsLiteral(dest)
    THEN UnifyLiteral(src, srcEnv, dest, destEnv)
    ELSE IF src.name # dest.name THEN [ok |-> FALSE, env |-> destEnv]
    ELSE IF Len(src.args) # Len(dest.args) THEN [ok |-> FALSE, env |-> destEnv]
    ELSE UnifyArgs(src.args, srcEnv, dest.args, destEnv, 1)

_unify(src, srcEnv, dest, destEnv) ==
    IF IsVariable(src)
    THEN LET srcVal == prolog_eval(src, srcEnv) IN
         IF ~Truthy(srcVal) THEN [ok |-> TRUE, env |-> destEnv]
         ELSE _unify(srcVal, srcEnv, dest, destEnv)
    ELSE IF IsVariable(dest)
    THEN UnifyDestVariable(src, srcEnv, dest, destEnv)
    ELSE IF IsLiteral(src) \/ IsLiteral(dest)
    THEN UnifyLiteral(src, srcEnv, dest, destEnv)
    ELSE IF src.name # dest.name THEN [ok |-> FALSE, env |-> destEnv]
    ELSE IF Len(src.args) # Len(dest.args) THEN [ok |-> FALSE, env |-> destEnv]
    ELSE LET r == UnifyArgs(src.args, srcEnv, dest.args, destEnv, 1) IN
         IF ~r.ok THEN [ok |-> FALSE, env |-> destEnv]
         ELSE [ok |-> TRUE, env |-> EnvUpdate(destEnv, r.env)]

(***************************************************************************)
(* Clauses and the clause database (logicdb.py 36-116).                    *)
(* model.ORMClause and the json conversion of logic.py are not part of the *)
(* sources at hand: a row is a record, the table a sequence in insertion   *)
(* order, and the conversion wraps and unwraps a clause.                   *)
(***************************************************************************)
Clause(h, b) == [head |-> h, body |-> b]

prolog_to_json(clause) == [pt |-> "Clause", head |-> clause.head, body |-> clause.body]
json_to_prolog(json)   == [head |-> json.head, body |-> json.body]

ORMClause(module, clause) ==
    [module |-> module, arity |-> Len(clause.head.args),
     head |-> clause.head.name, prolog |-> prolog_to_json(clause)]

\* LogicDB.store: session.add of one more row
store(rws, module, clause) == Append(rws, ORMClause(module, clause))

\* python dicts name -> [clause, ...]
EmptyDict == [n \in {} |-> <<>>]

Overlay(da, dr) == [present |-> TRUE,  d_assertz |-> da, d_retracted |-> dr]
NoOverlay       == [present |-> FALSE, d_assertz |-> EmptyDict, d_retracted |-> EmptyDict]

RECURSIVE QueryByHead(_, _)
\* session.query(ORMClause).filter(ORMClause.head == name).all(), decoded
QueryByHead(rws, name) ==
    IF rws = <<>> THEN <<>>
    ELSE (IF Head(rws).head = name THEN <<json_to_prolog(Head(rws).prolog)>> ELSE <<>>)
         \o QueryByHead(Tail(rws), name)

\* a filter that puts the asserted clauses in front of the stored ones
do_filterOverlayFirst(ov, name, res) ==
    IF name \in DOMAIN ov.d_assertz THEN ov.d_assertz[name] \o res ELSE res

\* LogicDBOverlay.do_filter: d_retracted is never filled by this code, so
\* the debugger trap of line 156 is not reached; the asserted clauses follow
do_filter(ov, name, res) ==
    IF name \in DOMAIN ov.d_assertz THEN res \o ov.d_assertz[name] ELSE res

\* LogicDB.lookup
lookup(rws, name, ov) ==
    LET res == QueryByHead(rws, name) IN
    IF ov.present THEN do_filter(ov, name, res) ELSE res

(***************************************************************************)
(* Goal frames (runtime.py 62-72) live on a heap: a goal is an address     *)
(* into `heap`, parent = 0 is python's None.  Assigning to a field of a    *)
(* goal changes the heap at that address, as it does for every holder of   *)
(* the reference.                                                          *)
(***************************************************************************)
\* a goal object whose inx starts at 1 instead of line 72's 0
PrologGoalInxOne(head, terms, parent, env) ==
    [head |-> head, terms |-> terms, parent |-> parent, env |-> env, inx |-> 1]

PrologGoal(head, terms, parent, env) ==
    [head |-> head, terms |-> terms, parent |-> parent, env |-> env, inx |-> 0]

RECURSIVE ChainOf(_, _)
\* a goal and its ancestors, the objects copy.deepcopy walks
ChainOf(h, a) == IF a = 0 THEN <<>> ELSE <<a>> \o ChainOf(h, h[a].parent)

\* copy.deepcopy(goal): fresh objects for the goal and every ancestor,
\* allocated at the end of the heap; the copy of `a` is at Len(h) + 1
DeepCopy(h, a) ==
    LET ch == ChainOf(h, a) IN
    [i \in 1..Len(ch) |->
        [h[ch[i]] EXCEPT !.parent = IF @ = 0 THEN 0 ELSE Len(h) + i + 1]]

Reverse(sq) == [i \in 1..Len(sq) |-> sq[Len(sq) + 1 - i]]

\* body of a clause or query as a list of subgoals (lines 341-345, 433-441)
TermsOf(body) == IF body.name = "and" THEN body.args ELSE <<body>>

\* Children with every arm of an or taken as one subgoal, an `and` arm too
ChildrenArmAsOneTerm(clause, ga) ==
    IF Truthy(clause.body)
    THEN IF clause.body.name = "or"
         THEN [i \in 1..Len(clause.body.args) |->
                 PrologGoal(clause.head, <<clause.body.args[i]>>, ga, EmptyEnv)]
         ELSE <<PrologGoal(clause.head, TermsOf(clause.body), ga, EmptyEnv)>>
    ELSE <<PrologGoal(clause.head, <<>>, ga, EmptyEnv)>>

\* lines 421-443: the child goals of one candidate clause, env still empty
Children(clause, ga) ==
    IF Truthy(clause.body)
    THEN IF clause.body.name = "or"
         THEN [i \in 1..Len(clause.body.args) |->
                 PrologGoal(clause.head, TermsOf(clause.body.args[i]), ga, EmptyEnv)]
         ELSE <<PrologGoal(clause.head, TermsOf(clause.body), ga, EmptyEnv)>>
    ELSE <<PrologGoal(clause.head, <<>>, ga, EmptyEnv)>>

RECURSIVE UnifyChildren(_, _, _, _, _)
\* lines 447-450: the children whose head unifies, in the order queued
UnifyChildren(children, i, pred, genv, head) ==
    IF i > Len(children) THEN <<>>
    ELSE LET r == _unify(pred, genv, head, children[i].env) IN
         (IF r.ok THEN <<[children[i] EXCEPT !.env = r.env]>> ELSE <<>>)
         \o UnifyChildren(children, i + 1, pred, genv, head)

RECURSIVE ExpandClauses(_, _, _, _, _)
\* lines 412-450: the loop over the candidate clauses
ExpandClauses(clauses, i, pred, genv, ga) ==
    IF i > Len(clauses) THEN <<>>
    ELSE (IF Len(clauses[i].head.args) # Len(pred.args) THEN <<>>
          ELSE UnifyChildren(Children(clauses[i], ga), 1, pred, genv, clauses[i].head))
         \o ExpandClauses(clauses, i + 1, pred, genv, ga)

(***************************************************************************)
(* Built-in predicates (runtime.py 116-140 registers them; builtins.py is  *)
(* not part of the sources at hand).  The arithmetic comparisons are       *)
(* modelled from their contract: both sides must reduce to numbers, else   *)
(* the helper prolog_get_float (222-228) raises.                           *)
(***************************************************************************)
builtins == {">", "<", "=<", ">=", "\\=", "=", "sub_string", "date_time_stamp",
             "stamp_date_time", "get_time", "write", "nl", "list_contains"}

comparisons == {">", "<", "=<", ">="}

\* "true" | "false" | "error"
builtin_compare(name, pred, env) ==
    IF Len(pred.args) # 2 THEN "error"
    ELSE LET a == prolog_eval(pred.args[1], env)
             b == prolog_eval(pred.args[2], env)
         IN  IF ~IsNumber(a) \/ ~IsNumber(b) THEN "error"
             ELSE IF (name = ">"  /\ a.f > b.f) \/ (name = "<"  /\ a.f < b.f) \/
                     (name = "=<" /\ a.f <= b.f) \/ (name = ">=" /\ a.f >= b.f)
                  THEN "true" ELSE "false"

(***************************************************************************)
(* PrologRuntime.search (runtime.py 336-453), one action per branch of the *)
(* loop body.  The goal popped is the last element of the python list,     *)
(* queue.insert(0, x) puts x in front of the first.                        *)
(***************************************************************************)
Running == status = "running" /\ queue # <<>>

\* the model follows a search until this many goal objects were allocated
MaxHeap == 60
HeapRoom == Len(heap) < MaxHeap
ga      == queue[Len(queue)]                  \* g = queue.pop()
g       == heap[ga]
popped  == SubSeq(queue, 1, Len(queue) - 1)   \* the queue after the pop
Done(gl) == gl.inx >= Len(gl.terms)
pred    == g.terms[g.inx + 1]                 \* pred = g.terms[g.inx]

\* history of a step: the branch taken, the goal popped, the length of the
\* queue before the pop, and the goals the step enqueued, in enqueue order
Note(op, put) == [op |-> op, g |-> ga, qlen |-> Len(queue), put |-> put]

\* lines 338-350: the trivial query, the malformed body, the root goal
SearchStart ==
    /\ status = "init"
    /\ IF query.body = None
       THEN /\ solutions' = <<EmptyEnv>>
            /\ status' = "returned"
            /\ UNCHANGED <<heap, queue>>
       ELSE IF ~IsPredicate(query.body)
       THEN /\ status' = "error"
            /\ UNCHANGED <<heap, queue, solutions>>
       ELSE /\ heap' = <<PrologGoal(query.head, TermsOf(query.body), 0, EmptyEnv)>>
            /\ queue' = <<1>>
            /\ solutions' = <<>>
            /\ status' = "running"
    /\ last' = [op |-> "start", g |-> 0, qlen |-> 0,
                put |-> IF query.body # None /\ IsPredicate(query.body) THEN <<1>> ELSE <<>>]
    /\ UNCHANGED <<query, dbVars, fnVars>>

\* lines 358-363: the root goal is finished, its env is a solution
RecordSolution ==
    /\ Running /\ Done(g) /\ g.parent = 0
    /\ solutions' = Append(solutions, g.env)
    /\ queue' = popped
    /\ last' = Note("solution", <<>>)
    /\ UNCHANGED <<query, heap, status, dbVars, fnVars>>

\* a resumption without line 365's copy.deepcopy: the parent object itself is
\* advanced and enqueued
ResumeParentInPlace ==
    /\ Running /\ Done(g) /\ g.parent # 0
    /\ HeapRoom
    /\ LET parent == heap[g.parent]
       IN  IF parent.inx >= Len(parent.terms)
           THEN /\ status' = "error"
                /\ UNCHANGED <<heap, queue>>
           ELSE LET r == _unify(g.head, g.env, parent.terms[parent.inx + 1], parent.env)
                    resumed == [parent EXCEPT !.env = r.env, !.inx = @ + 1]
                IN  /\ heap' = [heap EXCEPT ![g.parent] = resumed]
                    /\ queue' = <<g.parent>> \o popped
                    /\ status' = status
    /\ last' = Note("resume", IF status' = "error" THEN <<>> ELSE <<g.parent>>)
    /\ UNCHANGED <<query, solutions, dbVars, fnVars>>

\* lines 364-370: a child is finished, a copy of its parent resumes
ResumeParent ==
    /\ Running /\ Done(g) /\ g.parent # 0
    /\ HeapRoom
    /\ LET copies == DeepCopy(heap, g.parent)
           parent == copies[1]
       IN  IF parent.inx >= Len(parent.terms)
           THEN /\ status' = "error"       \* IndexError at parent.terms[parent.inx]
                /\ UNCHANGED <<heap, queue>>
           ELSE LET r == _unify(g.head, g.env, parent.terms[parent.inx + 1], parent.env)
                    resumed == [parent EXCEPT !.env = r.env, !.inx = @ + 1]
                IN  /\ heap' = heap \o [copies EXCEPT ![1] = resumed]
                    /\ queue' = <<Len(heap) + 1>> \o popped
                    /\ status' = status
    /\ last' = Note("resume", IF status' = "error" THEN <<>> ELSE <<Len(heap) + 1>>)
    /\ UNCHANGED <<query, solutions, dbVars, fnVars>>

\* lines 377-385, 390-392: is
IsStep ==
    /\ Running /\ ~Done(g) /\ pred.name = "is"
    /\ LET ques == prolog_eval(pred.args[1], g.env)
           ans  == prolog_eval(pred.args[2], g.env)
       IN  IF ques = None
           THEN /\ heap' = [heap EXCEPT ![ga].env = EnvSet(@, pred.args[1].name, ans),
                                        ![ga].inx = @ + 1]
                /\ queue' = <<ga>> \o popped
           ELSE IF ~TermEq(ques, ans)
           THEN /\ heap' = heap
                /\ queue' = popped
           ELSE /\ heap' = [heap EXCEPT ![ga].inx = @ + 1]
                /\ queue' = <<ga>> \o popped
    /\ last' = Note("is", IF Len(queue') = Len(queue) THEN <<ga>> ELSE <<>>)
    /\ UNCHANGED <<query, solutions, status, dbVars, fnVars>>

\* a cut that forgets `queue = []`: the other pending goals survive
CutStepKeepsQueue ==
    /\ Running /\ ~Done(g) /\ pred.name = "cut"
    /\ heap' = [heap EXCEPT ![ga].inx = @ + 1]
    /\ queue' = <<ga>> \o popped
    /\ last' = Note("cut", <<ga>>)
    /\ UNCHANGED <<query, solutions, status, dbVars, fnVars>>

\* lines 386, 390-392: cut
CutStep ==
    /\ Running /\ ~Done(g) /\ pred.name = "cut"
    /\ heap' = [heap EXCEPT ![ga].inx = @ + 1]
    /\ queue' = <<ga>>
    /\ last' = Note("cut", <<ga>>)
    /\ UNCHANGED <<query, solutions, status, dbVars, fnVars>>

\* a fail that puts the frame back instead of dropping it
FailStepRequeues ==
    /\ Running /\ ~Done(g) /\ pred.name = "fail"
    /\ queue' = <<ga>> \o popped
    /\ last' = Note("fail", <<ga>>)
    /\ UNCHANGED <<query, heap, solutions, status, dbVars, fnVars>>

\* lines 387-389: fail
FailStep ==
    /\ Running /\ ~Done(g) /\ pred.name = "fail"
    /\ queue' = popped
    /\ last' = Note("fail", <<>>)
    /\ UNCHANGED <<query, heap, solutions, status, dbVars, fnVars>>

Special == {"is", "cut", "fail"}

\* a built-in looked up in the database like a user-defined predicate: with
\* no clause of that name the search raises
BuiltinStepLooksUp ==
    /\ Running /\ ~Done(g) /\ pred.name \notin Special /\ pred.name \in builtins
    /\ pred.name \in comparisons
    /\ LET res == builtin_compare(pred.name, pred, g.env) IN
       IF res = "error" \/ Len(lookup(rows, pred.name, NoOverlay)) = 0
       THEN /\ status' = "error"
            /\ UNCHANGED <<heap, queue>>
       ELSE IF res = "true"
       THEN /\ heap' = [heap EXCEPT ![ga].inx = @ + 1]
            /\ queue' = <<ga>> \o popped
            /\ status' = status
       ELSE /\ heap' = heap
            /\ queue' = popped
            /\ status' = status
    /\ last' = Note("builtin", IF Len(queue') = Len(queue) /\ status' = "running"
                                  THEN <<ga>> ELSE <<>>)
    /\ UNCHANGED <<query, solutions, dbVars, fnVars>>

\* lines 396-403: a registered built-in predicate
BuiltinStep ==
    /\ Running /\ ~Done(g) /\ pred.name \notin Special /\ pred.name \in builtins
    /\ pred.name \in comparisons
    /\ LET res == builtin_compare(pred.name, pred, g.env) IN
       IF res = "error"
       THEN /\ status' = "error"
            /\ UNCHANGED <<heap, queue>>
       ELSE IF res = "true"
       THEN /\ heap' = [heap EXCEPT ![ga].inx = @ + 1]
            /\ queue' = <<ga>> \o popped
            /\ status' = status
       ELSE /\ heap' = heap
            /\ queue' = popped
            /\ status' = status
    /\ last' = Note("builtin", IF Len(queue') = Len(queue) /\ status' = "running"
                                  THEN <<ga>> ELSE <<>>)
    /\ UNCHANGED <<query, solutions, dbVars, fnVars>>

UserDefined == Running /\ ~Done(g) /\ pred.name \notin Special /\ pred.name \notin builtins

\* an unknown predicate that merely fails: the goal is dropped, search goes on
UndefinedPredicateFails ==
    /\ UserDefined
    /\ Len(lookup(rows, pred.name, NoOverlay)) = 0
    /\ queue' = popped
    /\ last' = Note("undefined", <<>>)
    /\ UNCHANGED <<query, heap, solutions, status, dbVars, fnVars>>

\* lines 407-410: no clause of that name
UndefinedPredicate ==
    /\ UserDefined
    /\ Len(lookup(rows, pred.name, NoOverlay)) = 0
    /\ status' = "error"
    /\ last' = Note("undefined", <<>>)
    /\ UNCHANGED <<query, heap, queue, solutions, dbVars, fnVars>>

\* lines 407-451: the candidate clauses become child goals
Expand ==
    /\ UserDefined
    /\ HeapRoom
    /\ LET clauses  == lookup(rows, pred.name, NoOverlay)
           children == ExpandClauses(clauses, 1, pred, g.env, ga)
       IN  /\ Len(clauses) # 0
           /\ heap' = heap \o children
           /\ queue' = Reverse([i \in 1..Len(children) |-> Len(heap) + i]) \o popped
    /\ last' = Note("expand", [i \in 1..(Len(heap') - Len(heap)) |-> Len(heap) + i])
    /\ UNCHANGED <<query, solutions, status, dbVars, fnVars>>

\* lines 352, 453: the queue is empty, the solutions are returned
SearchReturn ==
    /\ status = "running" /\ queue = <<>>
    /\ status' = "returned"
    /\ last' = [op |-> "return", g |-> 0, qlen |-> 0, put |-> <<>>]
    /\ UNCHANGED <<query, heap, queue, solutions, dbVars, fnVars>>

\* what the caller of search gets: the list returned, nothing on an error
Returned == IF status = "returned" THEN solutions ELSE <<>>

(***************************************************************************)
(* The programs and queries search is run on.                              *)
(***************************************************************************)
Atom(n) == Predicate(n, <<>>)
P1(n, a) == Predicate(n, <<a>>)
P2(n, a, b) == Predicate(n, <<a, b>>)
X == Variable("X")
Y == Variable("Y")
Z == Variable("Z")
N == Variable("N")
Fact(h) == Clause(h, None)

\* the family database of the scenarios
Family ==
    << Fact(P2("parent", Atom("tom"), Atom("bob"))),
       Fact(P2("parent", Atom("bob"), Atom("ann"))),
       Fact(P2("parent", Atom("bob"), Atom("pat"))),
       Clause(P2("grandparent", X, Z),
              P2("and", P2("parent", X, Y), P2("parent", Y, Z))),
       Clause(P1("p", X), P1("q", X)),
       Fact(P1("q", Atom("tom"))),
       Fact(P1("p", Atom("bob"))) >>

\* solutions of p at different proof depths, r below them
Depths ==
    << Clause(P1("p", X), P1("q", X)),
       Fact(P1("q", Atom("a"))),
       Fact(P1("p", Atom("b"))),
       Fact(P2("r", Atom("a"), Atom("c"))),
       Fact(P2("r", Atom("b"), Atom("d"))),
       Fact(P2("r", Atom("b"), Atom("e"))),
       Fact(P2("parent", Atom("b"), Atom("e"))) >>

\* a chain that ends in a predicate nobody defines, beside a fact
Dangling ==
    << Fact(P1("p", Atom("a"))),
       Clause(P1("p", X), P1("q", X)),
       Clause(P1("q", X), P1("t", X)),
       Clause(P1("t", X), P1("nosuch", X)),
       Fact(P2("r", Atom("a"), Atom("c"))),
       Fact(P2("parent", Atom("tom"), Atom("a"))) >>

\* disjunction, and a cut inside a clause body
Arms ==
    << Clause(P1("p", X),
              Predicate("or", << P1("q", X),
                                 P2("and", P1("t", X), P2("is", N, NumberLiteral(1))),
                                 P2("and", P1("q", X), Atom("fail")) >>)),
       Fact(P1("q", Atom("a"))),
       Fact(P1("t", Atom("b"))),
       Fact(P1("q", Atom("c"))),
       Clause(P2("r", X, Z), Predicate("and", << P1("q", X), Atom("cut"), P1("t", Z) >>)),
       Clause(P2("parent", X, Y), P2(">", NumberLiteral(2), NumberLiteral(1))) >>

\* numbers as data; with its fifth clause m and n call each other
Numbers ==
    << Fact(P1("m", NumberLiteral(3))),
       Clause(P1("m", X), P1("n", X)),
       Fact(P1("n", NumberLiteral(1))),
       Fact(P1("n", NumberLiteral(2))),
       Clause(P1("n", X), P1("m", X)) >>

Programs == << Family, Depths, Dangling, Arms, Numbers >>

\* a database holds at most this many clauses
MaxClauses == 6

Goal(body) == Clause(Atom("goal"), body)

Queries ==
    { Goal(P2("parent", Atom("tom"), X)),
      Goal(P2("parent", X, Y)),
      Goal(P2("grandparent", Atom("tom"), Z)),
      Goal(P2("and", P2("parent", X, Y),
                     P2("is", N, P2("+", NumberLiteral(1), NumberLiteral(2))))),
      Goal(Predicate("and", << P2("parent", Atom("tom"), X), Atom("cut"),
                               P2("parent", X, Z) >>)),
      Goal(P2(">", NumberLiteral(5), NumberLiteral(3))),
      Goal(P2(">", NumberLiteral(3), NumberLiteral(5))),
      Goal(P2("<", Atom("a"), NumberLiteral(3))),
      Goal(P2("is", X, P2("+", Atom("a"), NumberLiteral(1)))),
      Goal(P2("is", X, P2("*", NumberLiteral(2), NumberLiteral(3)))),
      Goal(P1("p", X)),
      Goal(Predicate("and", << P1("p", X), Atom("cut"), P2("r", X, Z) >>)),
      Goal(P2("r", X, Z)),
      Goal(None),
      Goal(NumberLiteral(1)),
      Goal(P2("and", P2("parent", X, Y), Atom("fail"))),
      Goal(P2("and", P2("is", N, NumberLiteral(3)),
                     P2("is", N, P2("+", NumberLiteral(1), NumberLiteral(2))))),
      Goal(P2("and", P2("is", N, NumberLiteral(3)), P2("is", N, NumberLiteral(4)))),
      Goal(P1("parent", Atom("tom"))),
      Goal(P2("and", P1("m", X), P2(">", X, NumberLiteral(2)))),
      Goal(P2("and", P2("parent", X, Y), P2("<", NumberLiteral(1), NumberLiteral(2)))) }

RECURSIVE StoreAll(_, _)
\* the database after storing the first k clauses of a program
StoreAll(program, k) ==
    IF k = 0 THEN <<>> ELSE store(StoreAll(program, k - 1), "m", program[k])

Min(a, b) == IF a < b THEN a ELSE b

NoOp   == [op |-> "none"]
NoCall == [state |-> "none"]
NoEval == [state |-> "none"]

FnIdle == ucall = NoCall /\ ecall = NoEval

EmptyLog == [stored |-> <<>>, asserted |-> <<>>]

DBIdle ==
    /\ d_assertz = EmptyDict /\ d_retracted = EmptyDict
    /\ log = EmptyLog
    /\ dbop = NoOp
    /\ odicts = <<>> /\ overlays = <<>>

SearchIdle ==
    /\ heap = <<>> /\ queue = <<>> /\ solutions = <<>>
    /\ last = [op |-> "init", g |-> 0, qlen |-> 0, put |-> <<>>]

Init ==
    /\ query \in Queries
    /\ \E i \in 1..Len(Programs) : \E k \in 0..Min(Len(Programs[i]), MaxClauses) :
           rows = StoreAll(Programs[i], k)
    /\ status = "init"
    /\ SearchIdle
    /\ DBIdle
    /\ FnIdle

Next ==
    \/ SearchStart
    \/ RecordSolution
    \/ ResumeParent
    \/ IsStep
    \/ CutStep
    \/ FailStep
    \/ BuiltinStep
    \/ UndefinedPredicate
    \/ Expand
    \/ SearchReturn

Spec == Init /\ [][Next]_vars

\* search is one synchronous loop (line 352): it keeps iterating while an
\* iteration is possible
FairSpec == Spec /\ WF_vars(Next)

(***************************************************************************)
(* The reference the solution order is compared with: a depth-first,       *)
(* left-to-right SLD resolver.  It resolves with the same rules as search  *)
(* (same unification, same way of resuming a parent) but keeps the pending *)
(* goals on a stack: the alternatives of a subgoal are pushed with the     *)
(* first clause of the database on top, and a goal that advances stays on  *)
(* top.  Goals are values here, the parent a sequence of none or one.      *)
(***************************************************************************)
RefGoal(head, terms, env, parent) ==
    [head |-> head, terms |-> terms, env |-> env, parent |-> parent, inx |-> 0]

RefAdvance(fr, env) == [fr EXCEPT !.env = env, !.inx = @ + 1]

RefChildren(rws, fr) ==
    LET pr == fr.terms[fr.inx + 1]
        cs == ExpandClauses(lookup(rws, pr.name, NoOverlay), 1, pr, fr.env, 0)
    IN  [i \in 1..Len(cs) |-> RefGoal(cs[i].head, cs[i].terms, cs[i].env, <<fr>>)]

RECURSIVE RefRun(_, _, _)
\* [ok, sols]: ok is FALSE when the resolver stops on an error
RefRun(rws, stack, sols) ==
    IF stack = <<>> THEN [ok |-> TRUE, sols |-> sols]
    ELSE
    LET fr   == Head(stack)
        rest == Tail(stack)
    IN  IF fr.inx >= Len(fr.terms)
        THEN IF fr.parent = <<>>
             THEN RefRun(rws, rest, Append(sols, fr.env))
             ELSE LET pa == fr.parent[1]
                      r  == _unify(fr.head, fr.env, pa.terms[pa.inx + 1], pa.env)
                  IN  RefRun(rws, <<RefAdvance(pa, r.env)>> \o rest, sols)
        ELSE
        LET pr == fr.terms[fr.inx + 1] IN
        IF pr.name = "is"
        THEN LET ques == prolog_eval(pr.args[1], fr.env)
                 ans  == prolog_eval(pr.args[2], fr.env)
             IN  IF ques = None
                 THEN RefRun(rws, <<RefAdvance(fr, EnvSet(fr.env, pr.args[1].name, ans))>>
                                  \o rest, sols)
                 ELSE IF ques # ans THEN RefRun(rws, rest, sols)
                 ELSE RefRun(rws, <<RefAdvance(fr, fr.env)>> \o rest, sols)
        ELSE IF pr.name = "cut" THEN RefRun(rws, <<RefAdvance(fr, fr.env)>>, sols)
        ELSE IF pr.name = "fail" THEN RefRun(rws, rest, sols)
        ELSE IF pr.name \in comparisons
        THEN LET res == builtin_compare(pr.name, pr, fr.env) IN
             IF res = "error" THEN [ok |-> FALSE, sols |-> sols]
             ELSE IF res = "true" THEN RefRun(rws, <<RefAdvance(fr, fr.env)>> \o rest, sols)
             ELSE RefRun(rws, rest, sols)
        ELSE IF Len(lookup(rws, pr.name, NoOverlay)) = 0
        THEN [ok |-> FALSE, sols |-> sols]
        ELSE RefRun(rws, RefChildren(rws, fr) \o rest, sols)

\* the solutions of the goals `terms`, started in env, in depth-first order
RefSolve(rws, terms, env) ==
    RefRun(rws, <<RefGoal(Atom("goal"), terms, env, <<>>)>>, <<>>)

RECURSIVE UsesCut(_)
UsesCut(t) ==
    t.tag = "pred" /\ (t.name = "cut" \/ \E i \in 1..Len(t.args) : UsesCut(t.args[i]))

\* no clause of the database has a cut in its body
CutFreeRows == \A i \in 1..Len(rows) : ~UsesCut(rows[i].prolog.body)

(***************************************************************************)
(* LogicDB and LogicDBOverlay as operations on a database and one overlay  *)
(* (logicdb.py 73-164).                                                    *)
(***************************************************************************)
\* LogicDBOverlay.assertz
assertz(da, clause) ==
    LET name == clause.head.name IN
    IF name \in DOMAIN da
    THEN [da EXCEPT ![name] = Append(@, clause)]
    ELSE [n \in (DOMAIN da) \cup {name} |-> IF n = name THEN <<clause>> ELSE da[n]]

RECURSIVE StoreEach(_, _, _)
\* the inner loop of store_overlayZ: store every clause of one name
StoreEach(rws, module, clauses) ==
    IF clauses = <<>> THEN rws
    ELSE StoreEach(store(rws, module, Head(clauses)), module, Tail(clauses))

RECURSIVE store_overlayZ(_, _, _, _)

\* a commit that stores only the first clause asserted under each name
store_overlayZFirstOnly(rws, module, overlayZ, names) ==
    IF names = <<>> THEN rws
    ELSE store_overlayZ(store(rws, module, Head(overlayZ[Head(names)])),
                        module, overlayZ, Tail(names))

\* LogicDB.store_overlayZ; `names` is the order in which the python dict
\* overlayZ hands out its keys
store_overlayZ(rws, module, overlayZ, names) ==
    IF names = <<>> THEN rws
    ELSE store_overlayZ(StoreEach(rws, module, overlayZ[Head(names)]),
                        module, overlayZ, Tail(names))

\* the orders a dict may hand out the keys S in
KeyOrders(S) ==
    {sq \in [1..Cardinality(S) -> S] : \A i, j \in 1..Cardinality(S) : sq[i] = sq[j] => i = j}

RECURSIVE Flatten(_, _)
Flatten(dict, names) ==
    IF names = <<>> THEN <<>> ELSE dict[Head(names)] \o Flatten(dict, Tail(names))

DBClauses == { Fact(P1("p", Atom("a"))), Fact(P1("p", Atom("b"))), Fact(P1("q", Atom("a"))) }
DBNames   == {"p", "q", "r"}
Modules   == {"m"}

\* at most this many rows in the database, and clauses asserted in an overlay
MaxRows    == 3
MaxAsserts == 2

DbOp(op, name, ov, clause, res, outcome) ==
    [op |-> op, name |-> name, ov |-> ov, clause |-> clause, res |-> res,
     outcome |-> outcome]

TheOverlay == Overlay(d_assertz, d_retracted)

\* db.store(module, clause)
Store(module, clause) ==
    /\ status = "db" /\ Len(rows) < MaxRows
    /\ rows' = store(rows, module, clause)
    /\ log' = [log EXCEPT !.stored = Append(@, clause)]
    /\ dbop' = DbOp("store", clause.head.name, FALSE, clause, <<>>, "returned")
    /\ UNCHANGED <<d_assertz, d_retracted, searchVars, cloneVars, fnVars>>

\* overlay.assertz(clause)
Assertz(clause) ==
    /\ status = "db" /\ Len(log.asserted) < MaxAsserts
    /\ d_assertz' = assertz(d_assertz, clause)
    /\ log' = [log EXCEPT !.asserted = Append(@, clause)]
    /\ dbop' = DbOp("assertz", clause.head.name, TRUE, clause, <<>>, "returned")
    /\ UNCHANGED <<rows, d_retracted, searchVars, cloneVars, fnVars>>

\* a lookup whose result list is the database's own list: what the overlay
\* appends to the result stays in the database
LookupAliased(name, ov) ==
    /\ status = "db"
    /\ rows' = IF ov /\ name \in DOMAIN d_assertz
               THEN StoreEach(rows, "m", d_assertz[name]) ELSE rows
    /\ dbop' = DbOp("lookup", name, ov, None,
                    lookup(rows, name, IF ov THEN TheOverlay ELSE NoOverlay), "returned")
    /\ UNCHANGED <<d_assertz, d_retracted, log, searchVars, cloneVars, fnVars>>

\* db.lookup(name) and db.lookup(name, overlay): the result is a fresh list
\* (line 98), nothing of the database or of the overlay is assigned to
Lookup(name, ov) ==
    /\ status = "db"
    /\ dbop' = DbOp("lookup", name, ov, None,
                    lookup(rows, name, IF ov THEN TheOverlay ELSE NoOverlay), "returned")
    /\ UNCHANGED <<rows, d_assertz, d_retracted, log, searchVars, cloneVars, fnVars>>

\* overlay.retractall(clause), lines 148-150: pdb.set_trace() hands control
\* to the debugger.  When execution is continued from there the method
\* falls through `pass` and returns, nothing retracted ...
RetractallContinued(clause) ==
    /\ status = "db"
    /\ dbop' = DbOp("retractall", clause.head.name, TRUE, clause, <<>>, "returned")
    /\ UNCHANGED <<rows, d_assertz, d_retracted, log, searchVars, cloneVars, fnVars>>

\* ... and when the debugger is quit (or finds no input to read) bdb.BdbQuit
\* is raised out of the call
RetractallQuit(clause) ==
    /\ status = "db"
    /\ dbop' = DbOp("retractall", clause.head.name, TRUE, clause, <<>>, "error")
    /\ UNCHANGED <<rows, d_assertz, d_retracted, log, searchVars, cloneVars, fnVars>>

\* db.store_overlayZ(module, overlay.d_assertz)
StoreOverlayZ(module) ==
    /\ status = "db" /\ Len(rows) + Len(log.asserted) <= MaxRows
    /\ \E names \in KeyOrders(DOMAIN d_assertz) :
          /\ rows' = store_overlayZ(rows, module, d_assertz, names)
          /\ log' = [log EXCEPT !.stored = @ \o Flatten(d_assertz, names)]
    /\ dbop' = DbOp("store_overlayZ", "", TRUE, None, <<>>, "returned")
    /\ UNCHANGED <<d_assertz, d_retracted, searchVars, cloneVars, fnVars>>

InitDB ==
    /\ query = Goal(None)
    /\ status = "db"
    /\ SearchIdle
    /\ rows = <<>>
    /\ DBIdle
    /\ FnIdle

NextDB ==
    \/ \E m \in Modules, c \in DBClauses : Store(m, c)
    \/ \E c \in DBClauses : Assertz(c)
    \/ \E n \in DBNames, ov \in BOOLEAN : Lookup(n, ov)
    \/ \E c \in DBClauses : RetractallContinued(c)
    \/ \E c \in DBClauses : RetractallQuit(c)
    \/ \E m \in Modules : StoreOverlayZ(m)

SpecDB == InitDB /\ [][NextDB]_vars

(***************************************************************************)
(* _unify called as a function: the arguments are drawn from a bounded set *)
(* of terms and environments, one step makes the call, a second one the    *)
(* call with the two sides exchanged.                                      *)
(***************************************************************************)
\* the number literals of the terms unified are 1..MaxNum
MaxNum == 3

UAtoms ==
    {X, Y, StringLiteral("s"), Atom("a")} \cup {NumberLiteral(k) : k \in 1..MaxNum}

\* f(t, f(u, v)): a predicate nested in a later argument
UNested ==
    LET small == {X, Y, NumberLiteral(1), NumberLiteral(MaxNum)} IN
    {Predicate("f", <<t, Predicate("f", <<u, v>>)>>) :
        t \in small, u \in small, v \in small}

UTerms ==
    UAtoms
    \cup {Predicate(n, <<t>>) : n \in {"f", "-"}, t \in UAtoms}
    \cup {Predicate(n, <<t, u>>) : n \in {"f", "+"}, t \in UAtoms, u \in UAtoms}
    \cup UNested

USrcEnvs  == {EmptyEnv, [v \in {"X"} |-> NumberLiteral(1)]}
UDestEnvs == {EmptyEnv, [v \in {"Y"} |-> Atom("a")]}

NoResult == [ok |-> FALSE, env |-> EmptyEnv]

UCall(state, a, b, srcEnv, destEnv, fwd, rev) ==
    [state |-> state, a |-> a, b |-> b, srcEnv |-> srcEnv, destEnv |-> destEnv,
     fwd |-> fwd, rev |-> rev]

\* unify(a, srcEnv, b, destEnv)
UnifyForward ==
    /\ ucall.state = "args"
    /\ ucall' = [ucall EXCEPT !.state = "fwd",
                              !.fwd = _unify(ucall.a, ucall.srcEnv, ucall.b, ucall.destEnv)]
    /\ UNCHANGED <<searchVars, dbVars, ecall>>

\* unify(b, destEnv, a, srcEnv): the same two terms, sides exchanged
UnifySwapped ==
    /\ ucall.state = "fwd"
    /\ ucall' = [ucall EXCEPT !.state = "both",
                              !.rev = _unify(ucall.b, ucall.destEnv, ucall.a, ucall.srcEnv)]
    /\ UNCHANGED <<searchVars, dbVars, ecall>>

InitUnify ==
    /\ query = Goal(None)
    /\ status = "unify"
    /\ SearchIdle
    /\ rows = <<>>
    /\ DBIdle
    /\ \E a \in UTerms, b \in UTerms, se \in USrcEnvs, de \in UDestEnvs :
          ucall = UCall("args", a, b, se, de, NoResult, NoResult)
    /\ ecall = NoEval

NextUnify == UnifyForward \/ UnifySwapped

SpecUnify == InitUnify /\ [][NextUnify]_vars

(***************************************************************************)
(* Claims about search.                                                    *)
(***************************************************************************)
IsGoalQuery == query.body # None /\ IsPredicate(query.body)

\* C1: when search returns, its solutions are in the order the depth-first,
\* left-to-right resolver produces them with clauses tried in insertion
\* order (stated for programs and queries without cut).
C1_DepthFirstOrder ==
    (status = "returned" /\ IsGoalQuery /\ ~UsesCut(query.body) /\ CutFreeRows)
    => LET ref == RefSolve(rows, TermsOf(query.body), EmptyEnv) IN
       ref.ok /\ solutions = ref.sols

CutPending == Running /\ ~Done(g) /\ pred.name = "cut"

\* C2: a step on a goal whose current subgoal is cut leaves exactly that
\* goal in the queue, with inx advanced by one and everything else of it,
\* env included, as it was.
C2_CutLeavesOnlyCutter ==
    [][CutPending => /\ queue' = <<ga>>
                     /\ heap'[ga] = [g EXCEPT !.inx = @ + 1]
                     /\ heap'[ga].env = g.env]_vars

\* a cut has just run while other goals were pending, and they are gone
C2_Witness == last.op = "cut" /\ last.qlen > 1 /\ queue = <<last.g>>

IsCutQuery ==
    /\ IsGoalQuery
    /\ query.body.name = "and" /\ Len(query.body.args) = 3
    /\ query.body.args[2].name = "cut"

Extends(env, sub) == \A v \in DOMAIN sub : v \in DOMAIN env /\ env[v] = sub[v]

\* C3: for a query and(G, cut, H) the solutions returned all extend the first
\* solution of G in depth-first clause order, and every solution of H under
\* that solution of G is among them (none at all when G has no solution).
C3_CutCommitsToFirst ==
    (status = "returned" /\ IsCutQuery /\ CutFreeRows)
    => LET gs == RefSolve(rows, <<query.body.args[1]>>, EmptyEnv) IN
       gs.ok =>
         IF gs.sols = <<>> THEN solutions = <<>>
         ELSE LET hs == RefSolve(rows, <<query.body.args[3]>>, gs.sols[1]) IN
              /\ \A i \in 1..Len(solutions) : Extends(solutions[i], gs.sols[1])
              /\ hs.ok => \A j \in 1..Len(hs.sols) :
                              \E i \in 1..Len(solutions) : solutions[i] = hs.sols[j]

UndefinedPending == UserDefined /\ Len(lookup(rows, pred.name, NoOverlay)) = 0

\* C4: a step on a goal whose current subgoal is user-defined and has no
\* clause in the database ends the search in an error, the error is final,
\* and the caller gets no solutions.
C4_UndefinedAborts ==
    [][/\ UndefinedPending => (status' = "error" /\ Returned' = <<>>)
       /\ status = "error" => status' = "error"]_vars

\* the error struck after a solution had been recorded
C4_Witness == last.op = "undefined" /\ status = "error" /\ solutions # <<>>

IsUnboundIsQuery ==
    /\ IsGoalQuery
    /\ query.body.name = "is" /\ Len(query.body.args) = 2
    /\ IsVariable(query.body.args[1])
    /\ prolog_eval(query.body.args[2], EmptyEnv) = None

\* C5: a query is(X, E) with X unbound and E not reducible by the evaluator
\* has no solutions.
C5_IsOfNoneFails ==
    (status = "returned" /\ IsUnboundIsQuery) => solutions = <<>>

(***************************************************************************)
(* Claims about the database and its overlay.                              *)
(***************************************************************************)
RECURSIVE WithHead(_, _)
\* the clauses of a list whose head has the name n, in the order of the list
WithHead(clauses, n) ==
    IF clauses = <<>> THEN <<>>
    ELSE (IF Head(clauses).head.name = n THEN <<Head(clauses)>> ELSE <<>>)
         \o WithHead(Tail(clauses), n)

\* C6: whatever was stored and asserted, lookup(n, overlay) returns the
\* clauses named n that were stored, in the order stored, followed by the
\* clauses named n that were asserted on the overlay, in the order asserted.
C6_LookupOrder ==
    (dbop.op = "lookup" /\ dbop.ov)
    => dbop.res = WithHead(log.stored, dbop.name) \o WithHead(log.asserted, dbop.name)

\* a lookup that returned two stored clauses followed by two asserted ones
C6_Witness ==
    /\ dbop.op = "lookup" /\ dbop.ov
    /\ Len(WithHead(log.stored, dbop.name)) = 2
    /\ Len(WithHead(log.asserted, dbop.name)) = 2
    /\ dbop.res[1] # dbop.res[2] /\ dbop.res[3] # dbop.res[4]

\* C7: a lookup, with or without the overlay, leaves the rows of the
\* database and the lists of the overlay as they were, and neither a lookup
\* nor an assertz on the overlay changes what lookup(n) without the overlay
\* returns, for any n.
C7_OverlayIsolation ==
    [][/\ dbop'.op = "lookup" =>
            rows' = rows /\ d_assertz' = d_assertz /\ d_retracted' = d_retracted
       /\ dbop'.op \in {"lookup", "assertz"} =>
            \A n \in DBNames : lookup(rows', n, NoOverlay) = lookup(rows, n, NoOverlay)]_vars

\* a lookup through the overlay returned asserted clauses beside the stored
\* ones, and the database still only has the stored ones
C7_Witness ==
    /\ dbop.op = "lookup" /\ dbop.ov
    /\ lookup(rows, dbop.name, NoOverlay) # <<>>
    /\ Len(dbop.res) > Len(lookup(rows, dbop.name, NoOverlay))

\* C8: when retractall(c) returns normally, a lookup of c's head name through
\* the overlay no longer returns a clause with the head of c.
C8_RetractallTakesEffect ==
    (dbop.op = "retractall" /\ dbop.outcome = "returned")
    => LET res == lookup(rows, dbop.name, TheOverlay) IN
       \A i \in 1..Len(res) : res[i].head # dbop.clause.head

\* C9: after store_overlayZ, lookup(n) without an overlay returns what
\* lookup(n, overlay) returned just before it, for every name n.
C9_CommitMatchesOverlayLookup ==
    [][dbop'.op = "store_overlayZ" =>
         \A n \in DBNames : lookup(rows', n, NoOverlay) = lookup(rows, n, TheOverlay)]_vars

\* a commit of two asserted clauses of one name on top of a stored one
C9_Witness ==
    /\ dbop.op = "store_overlayZ"
    /\ \E n \in DOMAIN d_assertz :
          /\ Len(d_assertz[n]) = 2 /\ d_assertz[n][1] # d_assertz[n][2]
          /\ Len(lookup(rows, n, NoOverlay)) = 3

(***************************************************************************)
(* Claims about unification.                                               *)
(***************************************************************************)
\* C10: with both environments empty, unify(a, {}, b, {}) succeeds exactly
\* when unify(b, {}, a, {}) succeeds.
C10_UnifySymmetric ==
    (ucall.state = "both" /\ ucall.srcEnv = EmptyEnv /\ ucall.destEnv = EmptyEnv)
    => (ucall.fwd.ok <=> ucall.rev.ok)

(***************************************************************************)
(* prolog_eval as a function (runtime.py 156-211): one call on a term and  *)
(* an environment, then a second call on the result of the first, with the *)
(* same environment object.  prolog_eval only reads env (env.get, 200), so *)
(* the environment after a call is the environment before it.              *)
(***************************************************************************)
ENums == {NumberLiteral(k) : k \in 1..MaxNum}

EAtoms == {X, Y, StringLiteral("s"), Atom("a")} \cup ENums

EDepth1 ==
    {Predicate(n, <<t>>) : n \in {"f", "-"}, t \in EAtoms}
    \cup {Predicate(n, <<t, u>>) : n \in {"f", "+", "*"}, t \in EAtoms, u \in EAtoms}

ETerms ==
    EAtoms \cup EDepth1
    \cup {Predicate(n, <<t>>) : n \in {"f", "-"}, t \in EDepth1}

\* acyclic environments (a cyclic one makes the python recursion unbounded)
EEnvs ==
    {EmptyEnv,
     [v \in {"X"} |-> NumberLiteral(1)],
     [v \in {"X", "Y"} |-> IF v = "X" THEN NumberLiteral(2) ELSE Atom("a")],
     [v \in {"X", "Y"} |-> IF v = "X" THEN Y ELSE NumberLiteral(1)],
     [v \in {"X", "Y"} |-> IF v = "X" THEN Predicate("+", <<NumberLiteral(1), Y>>)
                                      ELSE NumberLiteral(2)],
     [v \in {"X", "Y"} |-> IF v = "X" THEN Predicate("f", <<Y>>)
                                      ELSE Predicate("-", <<NumberLiteral(1)>>)],
     [v \in {"X", "Y"} |-> IF v = "X" THEN None ELSE NumberLiteral(1)]}

ECall(state, t, env, r1, env1, r2, env2) ==
    [state |-> state, t |-> t, env |-> env, r1 |-> r1, env1 |-> env1,
     r2 |-> r2, env2 |-> env2]

\* r1 = prolog_eval(t, env)
EvalOnce ==
    /\ ecall.state = "args"
    /\ ecall' = [ecall EXCEPT !.state = "once",
                              !.r1 = prolog_eval(ecall.t, ecall.env),
                              !.env1 = ecall.env]
    /\ UNCHANGED <<searchVars, dbVars, ucall>>

\* r2 = prolog_eval(r1, env); a None result has no second evaluation
EvalAgain ==
    /\ ecall.state = "once"
    /\ Truthy(ecall.r1)
    /\ ecall' = [ecall EXCEPT !.state = "twice",
                              !.r2 = prolog_eval(ecall.r1, ecall.env1),
                              !.env2 = ecall.env1]
    /\ UNCHANGED <<searchVars, dbVars, ucall>>

InitEval ==
    /\ query = Goal(None)
    /\ status = "eval"
    /\ SearchIdle
    /\ rows = <<>>
    /\ DBIdle
    /\ ucall = NoCall
    /\ \E t \in ETerms, env \in EEnvs :
          ecall = ECall("args", t, env, None, EmptyEnv, None, EmptyEnv)

NextEval == EvalOnce \/ EvalAgain

SpecEval == InitEval /\ [][NextEval]_vars

RECURSIVE VarsOf(_)
RECURSIVE VarsOfArgs(_, _)

\* the names of the variables that occur in a term
VarsOfArgs(args, i) ==
    IF i > Len(args) THEN {} ELSE VarsOf(args[i]) \cup VarsOfArgs(args, i + 1)

VarsOf(t) ==
    IF IsVariable(t) THEN {t.name}
    ELSE IF IsPredicate(t) THEN VarsOfArgs(t.args, 1)
    ELSE {}

AllBound(t, env) == \A v \in VarsOf(t) : Truthy(EnvGet(env, v))

\* C11: for a term whose variables are all bound and whose evaluation is
\* not None, evaluating the result again gives an equal result, and neither
\* call changes the environment.
C11_EvalIdempotent ==
    (ecall.state = "twice" /\ AllBound(ecall.t, ecall.env))
    => /\ TermEq(ecall.r2, ecall.r1)
       /\ ecall.env1 = ecall.env
       /\ ecall.env2 = ecall.env

\* an evaluation that followed a binding to an unevaluated term, inside a
\* compound term, and was repeated
C11_Witness ==
    /\ ecall.state = "twice"
    /\ AllBound(ecall.t, ecall.env)
    /\ IsPredicate(ecall.t) /\ "X" \in VarsOf(ecall.t)
    /\ IsPredicate(EnvGet(ecall.env, "X"))
    /\ IsPredicate(ecall.r1)
    /\ ecall.r1 # ecall.t

\* C12: each iteration of the loop processes the most recently enqueued
\* pending frame (stack discipline): after a step that enqueued frames, the
\* frame processed next is the one enqueued last, so a parent resumed on a
\* child's completion is processed before the frames that were pending then.
C12_StackDiscipline ==
    (Running /\ last.put # <<>>) => ga = last.put[Len(last.put)]

\* C13: whenever unify returns false, dest_env is exactly as it was before
\* the call, also when earlier arguments were bound before a later argument
\* failed, at any nesting depth (checked for both calls made).
C13_FailedUnifyKeepsEnv ==
    /\ (ucall.state \in {"fwd", "both"} /\ ~ucall.fwd.ok)
           => ucall.fwd.env = ucall.destEnv
    /\ (ucall.state = "both" /\ ~ucall.rev.ok)
           => ucall.rev.env = ucall.srcEnv

\* a failed call on f(t, f(u, v)) against f(X, f(Y, w)): X and Y, unbound in
\* dest_env, were bound on the way, then v against w failed one level down
C13_Witness ==
    /\ ucall.state = "fwd" /\ ~ucall.fwd.ok
    /\ ucall.a \in UNested /\ ucall.b \in UNested
    /\ ucall.b.args[1] = X /\ IsNumber(ucall.a.args[1])
    /\ ucall.b.args[2].args[1] = Y /\ IsNumber(ucall.a.args[2].args[1])
    /\ IsNumber(ucall.a.args[2].args[2]) /\ IsNumber(ucall.b.args[2].args[2])
    /\ ucall.a.args[2].args[2] # ucall.b.args[2].args[2]
    /\ ucall.destEnv = EmptyEnv

\* C14: when unify reaches an unbound dest variable with a non-variable src,
\* the variable is bound to eval(src, src_env) if that is not None and to
\* the unevaluated src otherwise; it is bound to a term afterwards, never to
\* None.
C14_UnboundDestBoundToTerm ==
    ( /\ ucall.state \in {"fwd", "both"}
      /\ IsVariable(ucall.b) /\ ~Truthy(prolog_eval(ucall.b, ucall.destEnv))
      /\ ~IsVariable(ucall.a) )
    => LET v == prolog_eval(ucall.a, ucall.srcEnv)
           bound == EnvGet(ucall.fwd.env, ucall.b.name)
       IN  /\ ucall.fwd.ok
           /\ Truthy(bound)
           /\ bound = (IF Truthy(v) THEN v ELSE ucall.a)

\* C15: when neither side is a variable and either side is a literal, unify
\* evaluates both sides and succeeds if and only if the values are equal,
\* whichever of the two sides the literal is on.
C15_LiteralEitherSide ==
    ( /\ ucall.state \in {"fwd", "both"}
      /\ ~IsVariable(ucall.a) /\ ~IsVariable(ucall.b)
      /\ (IsLiteral(ucall.a) \/ IsLiteral(ucall.b)) )
    => (ucall.fwd.ok <=> TermEq(prolog_eval(ucall.a, ucall.srcEnv),
                                prolog_eval(ucall.b, ucall.destEnv)))

BuiltinPending ==
    Running /\ ~Done(g) /\ pred.name \notin Special /\ pred.name \in builtins

\* C16: when the popped frame's subgoal names a registered built-in, the
\* database is not consulted (no child frame, no undefined-predicate error):
\* if the built-in returns true exactly that frame is re-enqueued with inx
\* advanced by one; if it returns false nothing is enqueued and no error is
\* raised; the rest of the queue and the solutions are unchanged either way.
C16_BuiltinFrameEffect ==
    [][BuiltinPending =>
         LET res == builtin_compare(pred.name, pred, g.env) IN
         /\ (res = "true") =>
               /\ queue' = <<ga>> \o popped
               /\ heap' = [heap EXCEPT ![ga].inx = @ + 1]
               /\ solutions' = solutions
               /\ status' = "running"
         /\ (res = "false") =>
               /\ queue' = popped
               /\ heap' = heap
               /\ solutions' = solutions
               /\ status' = "running"]_vars

\* a built-in has just returned false while another frame was pending and a
\* solution was already recorded: the frame is gone, the rest is still there
C16_Witness ==
    /\ status = "running"
    /\ last.op = "builtin" /\ last.put = <<>>
    /\ last.qlen > 1 /\ Len(queue) = last.qlen - 1
    /\ solutions # <<>>

(***************************************************************************)
(* LogicDBOverlay.clone (logicdb.py 125-136).  Overlay objects hold        *)
(* references to their two dicts: odicts is the store of dict objects,     *)
(* overlays[i] the addresses of overlay i's d_assertz and d_retracted.     *)
(* Nothing ever writes d_retracted (retractall is a placeholder), so the   *)
(* second loop of clone, lines 132-134, has no iteration.                  *)
(***************************************************************************)
RECURSIVE AssertzEach(_, _)
\* lines 129-130: clone.assertz(c) for every clause of one name
AssertzEach(da, clauses) ==
    IF clauses = <<>> THEN da
    ELSE AssertzEach(assertz(da, Head(clauses)), Tail(clauses))

RECURSIVE AssertzAll(_, _, _)
\* lines 128-130: the loop over the names of self.d_assertz
AssertzAll(da, src, names) ==
    IF names = <<>> THEN da
    ELSE AssertzAll(AssertzEach(da, src[Head(names)]), src, Tail(names))

\* LogicDBOverlay(): two new empty dicts
NewOverlay(od) == [d_assertz |-> Len(od) + 1, d_retracted |-> Len(od) + 2]

\* a clone that takes over the dicts of the original instead of filling
\* dicts of its own
cloneSharesDicts(od, ovs, i, names) ==
    [odicts |-> od, overlays |-> Append(ovs, ovs[i])]

\* overlays[i].clone(), names being the iteration order of the dict keys
clone(od, ovs, i, names) ==
    [odicts   |-> od \o <<AssertzAll(EmptyDict, od[ovs[i].d_assertz], names), EmptyDict>>,
     overlays |-> Append(ovs, NewOverlay(od))]

\* at most this many clones are made
MaxClones == 1

\* the clauses asserted in the overlays (the database holds p(a))
CloneClauses == { Fact(P1("p", Atom("b"))), Fact(P1("q", Atom("a"))) }

OverlayAt(od, ovs, i) == Overlay(od[ovs[i].d_assertz], od[ovs[i].d_retracted])

\* what db.lookup returns through overlay i, for every name
Results(od, ovs, i) == [n \in DBNames |-> lookup(rows, n, OverlayAt(od, ovs, i))]

\* overlays[i].clone()
Clone(i) ==
    /\ status = "clone" /\ Len(overlays) < 1 + MaxClones
    /\ \E names \in KeyOrders(DOMAIN odicts[overlays[i].d_assertz]) :
          LET c == clone(odicts, overlays, i, names) IN
          /\ odicts' = c.odicts
          /\ overlays' = c.overlays
    /\ dbop' = DbOp("clone", "", i, None, <<>>, "returned")
    /\ UNCHANGED <<rows, d_assertz, d_retracted, log, searchVars, fnVars>>

\* overlays[i].assertz(clause)
AssertzOn(i, clause) ==
    /\ status = "clone"
    /\ Len(Flatten(odicts[overlays[i].d_assertz],
                   CHOOSE names \in KeyOrders(DOMAIN odicts[overlays[i].d_assertz]) : TRUE))
          < MaxAsserts
    /\ odicts' = [odicts EXCEPT ![overlays[i].d_assertz] = assertz(@, clause)]
    /\ dbop' = DbOp("assertz", clause.head.name, i, clause, <<>>, "returned")
    /\ UNCHANGED <<rows, d_assertz, d_retracted, log, overlays, searchVars, fnVars>>

\* db.lookup(name, overlays[i])
LookupOn(i, name) ==
    /\ status = "clone"
    /\ dbop' = DbOp("lookup", name, i, None,
                    lookup(rows, name, OverlayAt(odicts, overlays, i)), "returned")
    /\ UNCHANGED <<rows, d_assertz, d_retracted, log, cloneVars, searchVars, fnVars>>

InitClone ==
    /\ query = Goal(None)
    /\ status = "clone"
    /\ SearchIdle
    /\ rows = store(<<>>, "m", Fact(P1("p", Atom("a"))))
    /\ d_assertz = EmptyDict /\ d_retracted = EmptyDict
    /\ log = EmptyLog
    /\ dbop = NoOp
    /\ odicts = <<EmptyDict, EmptyDict>>
    /\ overlays = <<NewOverlay(<<>>)>>
    /\ FnIdle

NextClone ==
    \/ \E i \in 1..Len(overlays) : Clone(i)
    \/ \E i \in 1..Len(overlays), c \in CloneClauses : AssertzOn(i, c)
    \/ \E i \in 1..Len(overlays), n \in DBNames : LookupOn(i, n)

SpecClone == InitClone /\ [][NextClone]_vars

\* C17: clone() yields an independent overlay: right after cloning the clone
\* returns the same lookup results as the original for every name, and an
\* assertz on the original leaves the clone's results unchanged and vice
\* versa (an assertz changes the results of no overlay but its own).
C17_CloneIndependent ==
    [][ /\ (dbop'.op = "clone" /\ Len(overlays') = Len(overlays) + 1)
            => Results(odicts', overlays', Len(overlays'))
                   = Results(odicts, overlays, dbop'.ov)
        /\ (dbop'.op = "assertz")
            => \A i \in 1..Len(overlays) :
                  i # dbop'.ov
                  => Results(odicts', overlays', i) = Results(odicts, overlays, i)
      ]_vars

\* after the cloning the original asserted one more clause, the clone holds
\* clauses too: the original now answers with one clause more than the clone
C17_Witness ==
    /\ Len(overlays) = 2
    /\ dbop.op = "assertz" /\ dbop.ov = 1
    /\ odicts[overlays[2].d_assertz] # EmptyDict
    /\ Results(odicts, overlays, 1) # Results(odicts, overlays, 2)
    /\ Len(Results(odicts, overlays, 1)["p"]) = 1 + Len(Results(odicts, overlays, 2)["p"])

\* position of a goal in the queue; the goal at the greater position is
\* popped first
QueuePos(a) == CHOOSE i \in 1..Len(queue) : queue[i] = a

\* clause k of the candidates has an or body, the arity of the subgoal, and
\* a head that unifies with it
OrCandidate(cls, k, pr, genv) ==
    /\ Truthy(cls[k].body) /\ cls[k].body.name = "or"
    /\ Len(cls[k].head.args) = Len(pr.args)
    /\ _unify(pr, genv, cls[k].head, EmptyEnv).ok

\* C18: for a candidate clause whose body is or(a1, ..., an) and whose head
\* unifies with the current subgoal, search creates exactly one child frame
\* per arm, each with the clause head, the current frame as parent, and as
\* terms the arguments of the arm if it is an `and`, else the arm alone; the
\* children are queued so that they are processed in the order a1, ..., an.
C18_OrArmsBecomeChildren ==
    (last.op = "expand") =>
        LET gl  == heap[last.g]
            pr  == gl.terms[gl.inx + 1]
            cls == lookup(rows, pr.name, NoOverlay)
        IN  \A k \in 1..Len(cls) :
              OrCandidate(cls, k, pr, gl.env) =>
                LET arms == cls[k].body.args
                    n    == Len(arms)
                IN  /\ \E o \in 0..(Len(last.put) - n) :
                          /\ \A i \in 1..n :
                                LET c == heap[last.put[o + i]] IN
                                /\ c.head = cls[k].head
                                /\ c.parent = last.g
                                /\ c.inx = 0
                                /\ c.terms = (IF arms[i].name = "and"
                                              THEN arms[i].args ELSE <<arms[i]>>)
                          /\ \A i \in 1..(n - 1) :
                                QueuePos(last.put[o + i]) > QueuePos(last.put[o + i + 1])
                    /\ (Len(cls) = 1) => (Len(last.put) = n)

\* a subgoal was just expanded through a clause with three arms, two of
\* them conjunctions
C18_Witness ==
    /\ last.op = "expand" /\ Len(last.put) = 3
    /\ LET gl  == heap[last.g]
           pr  == gl.terms[gl.inx + 1]
           cls == lookup(rows, pr.name, NoOverlay)
       IN  /\ Len(cls) = 1 /\ OrCandidate(cls, 1, pr, gl.env)
           /\ Len(heap[last.put[1]].terms) = 1
           /\ Len(heap[last.put[2]].terms) = 2
           /\ Len(heap[last.put[3]].terms) = 2
           /\ queue[Len(queue)] = last.put[1]

RECURSIVE CalledNames(_)
RECURSIVE CalledNamesOf(_, _)

\* the predicate names a clause body calls, through and/or
CalledNamesOf(args, i) ==
    IF i > Len(args) THEN {} ELSE CalledNames(args[i]) \cup CalledNamesOf(args, i + 1)

CalledNames(body) ==
    IF ~IsPredicate(body) THEN {}
    ELSE IF body.name \in {"and", "or"} THEN CalledNamesOf(body.args, 1)
    ELSE {body.name}

\* the call graph of the database: head name -> called name
CallEdges ==
    UNION { {<<rows[i].head, c>> : c \in CalledNames(json_to_prolog(rows[i].prolog).body)} :
            i \in 1..Len(rows) }

RECURSIVE CallClosure(_, _)
\* the edges of all paths of the call graph (k rounds of joining two paths)
CallClosure(E, k) ==
    IF k = 0 THEN E
    ELSE CallClosure(E \cup {<<p[1][1], p[2][2]>> :
                                p \in {q \in E \X E : q[1][2] = q[2][1]}},
                     k - 1)

\* no predicate of the database calls itself, directly or indirectly
AcyclicDB == \A e \in CallClosure(CallEdges, Len(rows)) : e[1] # e[2]

Stopped == status \in {"returned", "error"}

\* C19: for every query over a database whose predicate call graph is
\* acyclic, search eventually stops: the queue becomes empty and the
\* solutions are returned, or an error is raised.
C19_AcyclicTerminates == AcyclicDB => <>Stopped

\* a search over an acyclic database that went through a rule and several
\* resumptions, and returned its solutions
C19_Witness ==
    /\ AcyclicDB /\ Len(rows) >= 4
    /\ status = "returned" /\ queue = <<>>
    /\ Len(solutions) >= 2 /\ Len(heap) >= 10

\* some goal object has a as its parent: a child was spawned from a
HasChild(a) == \E b \in 1..Len(heap) : heap[b].parent = a

ResumePending == Running /\ Done(g) /\ g.parent # 0

\* C20: a frame referenced as parent is read-only: from the moment a child
\* is spawned from it, its inx, terms and env never change, and resuming it
\* works on a fresh copy, enqueued in its place, whose inx is the parent's
\* inx plus one.
C20_ParentsReadOnly ==
    [][ /\ \A a \in 1..Len(heap) :
              HasChild(a) => (a <= Len(heap') /\ heap'[a] = heap[a])
        /\ ResumePending =>
              /\ last'.op = "resume" /\ Len(last'.put) = 1
              /\ LET new == last'.put[1] IN
                 /\ new > Len(heap)
                 /\ new \notin {queue[i] : i \in 1..Len(queue)}
                 /\ queue' = <<new>> \o popped
                 /\ heap'[new].inx = heap[g.parent].inx + 1
                 /\ heap'[new].terms = heap[g.parent].terms
                 /\ heap'[new].head = heap[g.parent].head
      ]_vars

\* a parent was resumed through a copy while another of its children was
\* still pending; the parent object is as it was when the children were made
C20_Witness ==
    /\ last.op = "resume" /\ Len(last.put) = 1
    /\ LET pa == heap[last.g].parent IN
       /\ \E i \in 1..Len(queue) : heap[queue[i]].parent = pa
       /\ last.put[1] # pa
       /\ heap[last.put[1]].inx = heap[pa].inx + 1
       /\ heap[last.put[1]].env # heap[pa].env

Pending == {queue[i] : i \in 1..Len(queue)}

\* C21: in every reachable state of search every pending frame has
\* 0 <= inx <= len(terms), and every frame referenced as a parent has
\* inx < len(terms) with terms[inx] a user-defined subgoal (not is, cut, fail
\* or a built-in); so parent.terms[parent.inx] on a child's completion is in
\* range and a resumption never raises.
C21_FrameIndexInRange ==
    /\ \A a \in Pending :
          0 <= heap[a].inx /\ heap[a].inx <= Len(heap[a].terms)
    /\ \A b \in 1..Len(heap) :
          heap[b].parent # 0 =>
              LET pa == heap[heap[b].parent] IN
              /\ 0 <= pa.inx /\ pa.inx < Len(pa.terms)
              /\ IsPredicate(pa.terms[pa.inx + 1])
              /\ pa.terms[pa.inx + 1].name \notin Special \cup builtins
    /\ (last.op = "resume") => (status # "error")

\* a pending frame that finished the three subgoals of a rule body (inx at
\* the upper limit), about to resume a parent that waits at its third
\* subgoal
C21_Witness ==
    /\ Running
    /\ Len(g.terms) = 3 /\ g.inx = 3 /\ g.parent # 0
    /\ heap[g.parent].inx = 2 /\ Len(heap[g.parent].terms) = 3

====
